---- MODULE Spec2Model ----
(***************************************************************************)
(* Model of the datalake ingestion pipeline:                               *)
(*   - parsers/chatgpt_parser.py : parse_message_tree, ChatGPTImporter     *)
(*   - parsers/memory_parser.py  : MemoryParser, DatalakeMemoryIngester    *)
(* The relational store is modelled as a committed image (what another     *)
(* connection reads) plus the open transaction of the writing connection.  *)
(***************************************************************************)
EXTENDS Integers, Sequences, FiniteSets, Bags, TLC

\* ------------------------------------------------------------------------
\* Bounds of the model
\* ------------------------------------------------------------------------
MaxNodes == 3
MaxEdges == 3
\* nodes of a mapping that may hold malformed nodes
MaxMalformedNodes == 2
\* archive imports: external ids, update timestamps, export payloads, and
\* the number of conversation documents in all stored import batches together
MaxExt == 1
MaxTime == 2
MaxPayload == 1
MaxDocs == 2
\* telemetry: source devices, timestamps, lines of the two logs of one run
\* together, runs, failing INSERTs of one run
MaxDev == 1
MaxTs == 4
MaxLog == 2
MaxRuns == 2
MaxFails == 1
\* voice linking: audio files, transcript files, timestamps, tolerance
\* window, words of a transcript, audio rows deleted through the API
MaxAudio == 2
MaxTranscripts == 2
MaxClock == 3
MaxWindow == 2
MaxWords == 1
MaxDeletes == 1
\* session logs: lines of one session file
MaxLines == 3
\* session logs: well-formed timestamps, model names, branch names, and the
\* largest token counter of a line
MaxStamp == 2
MaxModels == 2
MaxBranches == 2
MaxTokens == 1
\* telemetry of several devices: devices with log files of their own
MaxHosts == 2
\* session store: session files, and turn lines of one file
MaxSessions == 2
MaxTurns == 2

\* ------------------------------------------------------------------------
\* Generic helpers
\* ------------------------------------------------------------------------
Range(s) == {s[i] : i \in DOMAIN s}

SeqsUpTo(S, n) == UNION {[1..k -> S] : k \in 0..n}

Count(s, x) == Cardinality({i \in DOMAIN s : s[i] = x})

\* ------------------------------------------------------------------------
\* Conversation mapping: node-id -> node.  Keys are 1..Len(mapping) in the
\* document's iteration order, so the first key is 1.  A node carries
\*   message  : "none" (key missing or null), "visible", or "hidden"
\*              (metadata.is_visually_hidden_from_conversation is true)
\*   parent   : the parent id, 0 for null
\*   children : the listed child ids (may name ids absent from the mapping)
\*   children_null : the key `children` is present with the value null
\* A message whose `metadata` key holds null has the kind "nullmeta".
\* ------------------------------------------------------------------------
MessageKinds == {"none", "visible", "hidden"}

NodeIds == 1..MaxNodes

\* an export document: n nodes, the message kind of each, and the child
\* references as (node, child) pairs in document order
ChildrenOf(edges, p) ==
    LET F[i \in 0..Len(edges)] ==
            IF i = 0 THEN <<>>
            ELSE IF edges[i][1] = p THEN Append(F[i - 1], edges[i][2]) ELSE F[i - 1]
    IN F[Len(edges)]

\* the parent reference of node n in an export: the first node listing n
ParentOf(edges, n) ==
    LET ps == {e[1] : e \in {x \in Range(edges) : x[2] = n}}
    IN IF ps = {} THEN 0 ELSE CHOOSE p \in ps : \A q \in ps : p <= q

MappingOf(n, kinds, edges) ==
    [id \in 1..n |->
        [message |-> kinds[id], parent |-> ParentOf(edges, id),
         children |-> ChildrenOf(edges, id), children_null |-> FALSE]]

\* an export document in which the nodes of `nulls` have "children": null
MalformedMappingOf(n, kinds, edges, nulls) ==
    [id \in 1..n |->
        [message |-> kinds[id], parent |-> ParentOf(edges, id),
         children |-> IF id \in nulls THEN <<>> ELSE ChildrenOf(edges, id),
         children_null |-> id \in nulls]]

\* line 51-52: msg.get('metadata', {}) is None and metadata.get raises
MetadataRaises(mapping, node_id) == mapping[node_id].message = "nullmeta"

\* line 58: iterating node.get('children', []) raises when it is None
ChildrenRaise(mapping, node_id) == mapping[node_id].children_null

\* the message payload of a node, after msg['_parent_id'] = node.get('parent')
TaggedMessage(mapping, node_id) ==
    [id |-> node_id, _parent_id |-> mapping[node_id].parent]

\* `node_id in visited or node_id not in mapping` negated
Visitable(mapping, node_id, visited) ==
    node_id \in DOMAIN mapping /\ node_id \notin visited

\* the node's own contribution to `messages`
OwnMessages(mapping, node_id) ==
    IF mapping[node_id].message = "visible"
    THEN <<TaggedMessage(mapping, node_id)>>
    ELSE <<>>

\* `for child_id in node.get('children', [])`: the i-th child processed
ChildAt_reversed(children, i) == children[Len(children) + 1 - i]

ChildAt(children, i) == children[i]

\* `visited` is one set object passed by reference: what the caller's set
\* holds after a recursive call is what the callee left in it
VisitedAfterCall_copied(before, after) == before

VisitedAfterCall(before, after) == after

\* parse_message_tree as a function: returns the messages and the visited set
\* as the call leaves it
RECURSIVE parse_message_tree(_, _, _)
RECURSIVE extend_children(_, _, _, _)
parse_message_tree(mapping, node_id, visited) ==
    IF ~Visitable(mapping, node_id, visited)
    THEN [messages |-> <<>>, visited |-> visited]
    ELSE extend_children(mapping, mapping[node_id].children, 1,
                         [messages |-> OwnMessages(mapping, node_id),
                          visited |-> visited \cup {node_id}])

extend_children(mapping, children, i, acc) ==
    IF i > Len(children) THEN acc
    ELSE LET r == parse_message_tree(mapping, ChildAt(children, i), acc.visited)
         IN extend_children(mapping, children, i + 1,
                            [messages |-> acc.messages \o r.messages,
                             visited |-> VisitedAfterCall(acc.visited, r.visited)])

\* list(mapping.keys())[0]
RootId(mapping) == 1

Flatten(mapping) == parse_message_tree(mapping, RootId(mapping), {}).messages

\* ------------------------------------------------------------------------
\* ChatGPT export archives.
\* A conversation object of conversations.json: id, update_time (NoTime when
\* the key is missing or null), title / default_model_slug / is_archived /
\* is_starred, and the mapping.  The payload p of a document fixes the
\* descriptive fields and the mapping together.
\* ------------------------------------------------------------------------
NoTime == 0

\* root msg0 with children [c1, c2] carrying msg1 and msg2
ExampleMapping ==
    <<[message |-> "visible", parent |-> 0, children |-> <<2, 3>>,
       children_null |-> FALSE],
      [message |-> "visible", parent |-> 1, children |-> <<>>,
       children_null |-> FALSE],
      [message |-> "visible", parent |-> 1, children |-> <<>>,
       children_null |-> FALSE]>>

\* a hidden system root, a reply that lists the root again and a repeated id
CyclicMapping ==
    <<[message |-> "hidden", parent |-> 0, children |-> <<2, 2>>,
       children_null |-> FALSE],
      [message |-> "visible", parent |-> 1, children |-> <<1>>,
       children_null |-> FALSE]>>

PayloadMapping(p) ==
    IF p = 0 THEN <<>> ELSE IF p % 2 = 1 THEN ExampleMapping ELSE CyclicMapping

ConvDoc(id, ut, p) ==
    [id |-> id, create_time |-> 1, update_time |-> ut, title |-> p,
     default_model_slug |-> p, is_archived |-> p % 2, is_starred |-> (p + 1) % 2,
     mapping |-> PayloadMapping(p)]

ConvDocs == {ConvDoc(id, ut, p) : id \in 1..MaxExt, ut \in 0..MaxTime, p \in 0..MaxPayload}

\* a zip file: with or without a conversations.json member
Archives ==
    {[has_json |-> TRUE, conversations |-> c] : c \in SeqsUpTo(ConvDocs, MaxDocs)}
        \cup {[has_json |-> FALSE, conversations |-> <<>>]}

\* hash_file: two files have the same SHA-256 iff they hold the same bytes
hash_file(zip) == zip

\* ------------------------------------------------------------------------
\* The tables written by ChatGPTImporter.  Rows are kept in insertion order;
\* the integer primary key of a row is its position.
\* ------------------------------------------------------------------------
EmptyTables == [imports |-> <<>>, conversations |-> <<>>, messages |-> <<>>]

ZeroStats == [conversations_new |-> 0, conversations_updated |-> 0, messages_imported |-> 0]

\* message_count of a freshly inserted conversation row (column default)
DefaultMessageCount == 0

\* the conversation documents of all import batches (bounds the model)
DocsStored(t) ==
    LET F[i \in 0..Len(t.imports)] ==
            IF i = 0 THEN 0 ELSE F[i - 1] + t.imports[i].conversation_count
    IN F[Len(t.imports)]

\* SELECT id, conversation_count FROM chatgpt_imports WHERE zip_hash = ?
FindImport_never(t, zip_hash) == 0

FindImport(t, zip_hash) ==
    LET S == {i \in DOMAIN t.imports : t.imports[i].zip_hash = zip_hash}
    IN IF S = {} THEN 0 ELSE CHOOSE i \in S : \A j \in S : i <= j

\* SELECT id, update_time FROM chatgpt_conversations WHERE conversation_id = ?
FindConversation_never(t, conversation_id) == 0

FindConversation(t, conversation_id) ==
    LET S == {i \in DOMAIN t.conversations :
                 t.conversations[i].conversation_id = conversation_id}
    IN IF S = {} THEN 0 ELSE CHOOSE i \in S : \A j \in S : i <= j

\* update_time and existing['update_time'] and update_time <= existing['update_time']
IsStale_strict(update_time, existing_update_time) ==
    /\ update_time # NoTime
    /\ existing_update_time # NoTime
    /\ update_time < existing_update_time

IsStale(update_time, existing_update_time) ==
    /\ update_time # NoTime
    /\ existing_update_time # NoTime
    /\ update_time <= existing_update_time

\* UPDATE chatgpt_conversations SET title, update_time, model_slug,
\*        is_archived, is_starred, import_id WHERE id = ?
UpdatedRow_keeps_batch(row, conv, import_id) ==
    [row EXCEPT !.title = conv.title, !.update_time = conv.update_time,
                !.model_slug = conv.default_model_slug,
                !.is_archived = conv.is_archived, !.is_starred = conv.is_starred]

UpdatedRow(row, conv, import_id) ==
    [row EXCEPT !.title = conv.title, !.update_time = conv.update_time,
                !.model_slug = conv.default_model_slug,
                !.is_archived = conv.is_archived, !.is_starred = conv.is_starred,
                !.import_id = import_id]

\* INSERT INTO chatgpt_conversations (...)
NewRow(conv, import_id) ==
    [conversation_id |-> conv.id, title |-> conv.title,
     create_time |-> conv.create_time, update_time |-> conv.update_time,
     model_slug |-> conv.default_model_slug, is_archived |-> conv.is_archived,
     is_starred |-> conv.is_starred, import_id |-> import_id,
     message_count |-> DefaultMessageCount]

\* DELETE FROM chatgpt_messages WHERE conversation_id = ?
DeleteMessages_none(messages, db_conv_id) == messages

DeleteMessages(messages, db_conv_id) ==
    SelectSeq(messages, LAMBDA m : m.conversation_id # db_conv_id)

\* enumerate(messages): the sequence number of the i-th message (i from 1)
SequenceNumber_one_based(i) == i

SequenceNumber(i) == i - 1

\* the rows inserted by the loop over enumerate(messages)
MessageRows(db_conv_id, messages) ==
    [i \in 1..Len(messages) |->
        [conversation_id |-> db_conv_id, message_id |-> messages[i].id,
         parent_id |-> messages[i]._parent_id,
         sequence_number |-> SequenceNumber(i)]]

\* _import_conversation on the connection's view t of the tables
import_conversation(t, conv, import_id) ==
    LET existing == FindConversation(t, conv.id)
        is_new == existing = 0
    IN IF ~is_new /\ IsStale(conv.update_time, t.conversations[existing].update_time)
       THEN [tables |-> t, is_new |-> FALSE, messages_imported |-> 0, skipped |-> TRUE]
       ELSE
         LET db_conv_id == IF is_new THEN Len(t.conversations) + 1 ELSE existing
             t1 == IF is_new
                   THEN [t EXCEPT !.conversations = Append(@, NewRow(conv, import_id))]
                   ELSE [t EXCEPT !.conversations[existing] = UpdatedRow(@, conv, import_id),
                                  !.messages = DeleteMessages(@, existing)]
             messages == Flatten(conv.mapping)
         IN IF conv.mapping = <<>>
            THEN [tables |-> t1, is_new |-> is_new, messages_imported |-> 0,
                  skipped |-> FALSE]
            ELSE [tables |-> [t1 EXCEPT
                                !.messages = @ \o MessageRows(db_conv_id, messages),
                                !.conversations[db_conv_id].message_count = Len(messages)],
                  is_new |-> is_new, messages_imported |-> Len(messages),
                  skipped |-> FALSE]

\* the counters of import_from_zip after one conversation
AddStats(stats, r) ==
    [conversations_new |-> stats.conversations_new + (IF r.is_new THEN 1 ELSE 0),
     conversations_updated |-> stats.conversations_updated + (IF r.is_new THEN 0 ELSE 1),
     messages_imported |-> stats.messages_imported + r.messages_imported]

\* what the connection has committed after one conversation was processed:
\* import_from_zip commits once, after the loop
CommittedAfterConversation_each(committed, pending) == pending

CommittedAfterConversation(committed, pending) == committed

\* ------------------------------------------------------------------------
\* parse_message_tree step by step: the call stack of the recursion.
\*   fcall  : the argument of the call being entered (when fpc = "call")
\*   fstack : the active calls; each frame holds its node, the index of the
\*            next child to process, its local `messages` list and the
\*            content of `visited` when the call was made
\*   fdisc  : (history) for each entered node, the node whose loop made the
\*            call that entered it; 0 for the outermost call
\* ------------------------------------------------------------------------
VARIABLES fmapping, fpc, fcall, fstack, fvisited, fout, fdisc

fvars == <<fmapping, fpc, fcall, fstack, fvisited, fout, fdisc>>

\* ------------------------------------------------------------------------
\* One run of chatgpt_parser.main per process, one process at a time.
\*   db        : the committed tables
\*   tx        : the tables as the importer's connection sees them (its open
\*               transaction included)
\*   ipc       : "idle" before the first run; "convs" inside the loop of
\*               import_from_zip; "done" when it returned; "raised" when an
\*               exception left main; "killed" when the process was killed
\*   arch, idx : the zip of the run and the next conversation to process
\*   import_id, stats : cursor.lastrowid of the import record, the counters
\*   db0, prev : (history) the committed tables when the run started, or
\*               when the killed run it repeats started; how the previous
\*               run ended if it had the same zip, else "other"
\* ------------------------------------------------------------------------
VARIABLES db, tx, ipc, arch, idx, import_id, stats, db0, prev

ivars == <<db, tx, ipc, arch, idx, import_id, stats, db0, prev>>

\* ------------------------------------------------------------------------
\* One run of memory_parser.main per process, one process at a time.
\*   tdb        : the committed tables
\*   tpc        : "idle" (no process), "done" (main returned), "killed"
\*   tdev, tlog : device and logs of the last run
\*   twm        : last_metric_ts and last_event_ts read at the start of main
\*   tcount     : the values returned by ingest_metrics / ingest_events
\*   tphase     : the call during which the process was killed, also kept
\*                through the run that repeats the killed one
\*   truns      : runs started on a new input
\*   tdb0, tmid : (history) the committed tables when the run started and
\*                when the last ingest call it made started
\*   tretry, torig : (history) whether the run repeats a killed run on the
\*                same input; the committed tables when the input was first
\*                run
\*   tfailed    : (history) the number of INSERTs that failed, per kind, in
\*                the run and in the killed run it repeats
\* ------------------------------------------------------------------------
VARIABLES tdb, tpc, tdev, tlog, twm, tcount, tphase, truns, tdb0, tmid, tretry, torig,
          tfailed

tvars == <<tdb, tpc, tdev, tlog, twm, tcount, tphase, truns, tdb0, tmid, tretry, torig,
           tfailed>>

\* ------------------------------------------------------------------------
\* One run of voice_parser.main: link_sessions consumed record by record by
\* ingest_session; and deletions of audio rows by another connection.
\*   laudio, ltrans : audio_files and transcript_files after the sort
\*   lwin       : max_time_diff_seconds
\*   lpc        : "idle", "linking" (inside the generator), "done"
\*   li, lj     : the next audio of the first loop, the next transcript of
\*                the orphan loop
\*   lused      : used_transcripts
\*   lout       : the VoiceSession records yielded so far
\*   vdb        : the tables audio, transcripts, voice_sessions
\*   vdeleted   : the number of audio rows deleted
\* ------------------------------------------------------------------------
VARIABLES laudio, ltrans, lwin, lpc, li, lj, lused, lout, vdb, vdeleted

lvars == <<laudio, ltrans, lwin, lpc, li, lj, lused, lout, vdb, vdeleted>>

\* ------------------------------------------------------------------------
\* One call of ClaudeParser._parse_session_file.
\*   slog       : the lines of the session file
\*   spc        : "idle", "lines" (inside the loop), "returned", "raised"
\*   sline      : seq_num of the next line
\*   smessages  : the local list `messages`
\*   ssummaries : the local list `summaries`, by line number
\*   sresult    : "none" (None returned, or nothing returned) or "session"
\*   stimestamps: the local list `timestamps`
\*   sbranch    : the local `git_branch`
\*   smodels    : the local set `models_used`
\*   stotals    : the locals total_input, total_output
\*   scounts    : the locals user_count, assistant_count
\*   ssession   : the ClaudeSession returned, NoSession before and without one
\* ------------------------------------------------------------------------
VARIABLES slog, spc, sline, smessages, ssummaries, sresult,
          stimestamps, sbranch, smodels, stotals, scounts, ssession

svars == <<slog, spc, sline, smessages, ssummaries, sresult,
           stimestamps, sbranch, smodels, stotals, scounts, ssession>>

\* ------------------------------------------------------------------------
\* The store written by DatalakeIngester.ingest_session, and the session
\* files it is fed from.
\*   cdb     : the committed tables claude_sessions and claude_messages
\*   clen    : for each session id, the number of turn lines of its file
\*   cret    : the value returned by the last call (NoRow for None)
\*   cunique : whether the schema lets INSERT OR IGNORE see a message that
\*             is already stored as a duplicate
\* ------------------------------------------------------------------------
VARIABLES cdb, clen, cret, cunique

cvars == <<cdb, clen, cret, cunique>>

\* ------------------------------------------------------------------------
\* Telemetry of several devices, each with log files that only grow.
\*   alog : for each device, its metrics.jsonl and events.jsonl
\*   adb  : the committed tables memory_metrics and memory_events
\*   apc  : "idle", "metrics" (before ingest_metrics), "events" (before
\*          ingest_events), "done" (main has returned)
\*   adev : the device of the run
\*   awm  : the watermarks main has read
\* ------------------------------------------------------------------------
VARIABLES alog, adb, apc, adev, awm

avars == <<alog, adb, apc, adev, awm>>

vars == <<fvars, ivars, tvars, lvars, svars, cvars, avars>>

NoArchive == [has_json |-> FALSE, conversations |-> <<>>]

ImportInit ==
    /\ db = EmptyTables
    /\ tx = EmptyTables
    /\ ipc = "idle"
    /\ arch = NoArchive
    /\ idx = 1
    /\ import_id = 0
    /\ stats = ZeroStats
    /\ db0 = EmptyTables
    /\ prev = "other"

\* lines 149-187: digest check, conversations.json lookup, import record
ImportStart(zip) ==
    /\ ipc \in {"idle", "done", "raised", "killed"}
    /\ arch' = zip
    /\ db0' = IF ipc = "killed" /\ arch = zip THEN db0 ELSE db
    /\ prev' = IF ipc # "idle" /\ arch = zip THEN ipc ELSE "other"
    /\ stats' = ZeroStats
    /\ idx' = 1
    /\ IF FindImport(db, hash_file(zip)) # 0 \/ ~zip.has_json
       THEN /\ ipc' = "done"
            /\ tx' = db
            /\ import_id' = 0
       ELSE /\ DocsStored(db) + Len(zip.conversations) <= MaxDocs
            /\ ipc' = "convs"
            /\ tx' = [db EXCEPT !.imports = Append(@,
                         [zip_hash |-> hash_file(zip),
                          conversation_count |-> Len(zip.conversations),
                          message_count |-> 0])]
            /\ import_id' = Len(db.imports) + 1
    /\ UNCHANGED db
    /\ UNCHANGED <<fvars, tvars, lvars, svars, cvars, avars>>

\* lines 190-196: one iteration of the loop over the conversations
ImportNextConversation ==
    /\ ipc = "convs"
    /\ idx <= Len(arch.conversations)
    /\ LET r == import_conversation(tx, arch.conversations[idx], import_id)
       IN /\ tx' = r.tables
          /\ stats' = AddStats(stats, r)
          /\ db' = CommittedAfterConversation(db, r.tables)
    /\ idx' = idx + 1
    /\ UNCHANGED <<ipc, arch, import_id, db0, prev>>
    /\ UNCHANGED <<fvars, tvars, lvars, svars, cvars, avars>>

\* lines 198-204: record the message count, commit, return the counters
ImportCommit ==
    /\ ipc = "convs"
    /\ idx > Len(arch.conversations)
    /\ tx' = [tx EXCEPT !.imports[import_id].message_count = stats.messages_imported]
    /\ db' = tx'
    /\ ipc' = "done"
    /\ UNCHANGED <<arch, idx, import_id, stats, db0, prev>>
    /\ UNCHANGED <<fvars, tvars, lvars, svars, cvars, avars>>

\* a statement raises sqlite3.Error: nothing catches it in import_from_zip,
\* main's `finally` closes the connection and the open transaction is lost
ImportWriteFails ==
    /\ ipc = "convs"
    /\ tx' = db
    /\ ipc' = "raised"
    /\ idx' = 1
    /\ import_id' = 0
    /\ stats' = ZeroStats
    /\ UNCHANGED <<db, arch, db0, prev>>
    /\ UNCHANGED <<fvars, tvars, lvars, svars, cvars, avars>>

\* the process is killed before the commit: the journal rolls the open
\* transaction back
ImportKilled ==
    /\ ipc = "convs"
    /\ tx' = db
    /\ ipc' = "killed"
    /\ idx' = 1
    /\ import_id' = 0
    /\ stats' = ZeroStats
    /\ UNCHANGED <<db, arch, db0, prev>>
    /\ UNCHANGED <<fvars, tvars, lvars, svars, cvars, avars>>

ImportNext ==
    \/ \E zip \in Archives : ImportStart(zip)
    \/ ImportNextConversation
    \/ ImportCommit
    \/ ImportWriteFails
    \/ ImportKilled

\* ------------------------------------------------------------------------
\* Memory telemetry: memory_parser.main, one process at a time.
\* A log line is BadLine (not JSON) or the `timestamp` of the record, 0 when
\* the record has no such key.  A stored row keeps the device and timestamp.
\* ------------------------------------------------------------------------
BadLine == -1

Lines == {BadLine} \cup (0..MaxTs)

Kinds == {"metrics", "events"}

LogPairs ==
    {[metrics |-> m, events |-> e] :
        <<m, e>> \in {x \in SeqsUpTo(Lines, MaxLog) \X SeqsUpTo(Lines, MaxLog) :
                         Len(x[1]) + Len(x[2]) <= MaxLog}}

\* memory_metrics and memory_events: bags of rows (the row id is left out)
EmptyStore == [metrics |-> EmptyBag, events |-> EmptyBag]

NoLogs == [metrics |-> <<>>, events |-> <<>>]

MaxOf(S) == CHOOSE x \in S : \A y \in S : y <= x

\* SELECT MAX(timestamp_unix) ... WHERE source_device = ?;  row['last_ts'] or 0
get_last_timestamp_any_device(table, source_device) ==
    LET S == {r.timestamp_unix : r \in BagToSet(table)}
    IN IF S = {} THEN 0 ELSE MaxOf(S)

get_last_timestamp(table, source_device) ==
    LET S == {r.timestamp_unix :
                 r \in {x \in BagToSet(table) : x.source_device = source_device}}
    IN IF S = {} THEN 0 ELSE MaxOf(S)

\* parse_metrics / parse_events on one line: is a record yielded?
\*   json.loads fails -> warning, next line
\*   timestamp_unix <= since_unix -> continue
Yields_inclusive(line, since_unix) == line # BadLine /\ line >= since_unix

Yields(line, since_unix) == line # BadLine /\ ~(line <= since_unix)

\* INSERT INTO memory_metrics / memory_events
InsertRow_replacing(table, source_device, timestamp_unix) ==
    SetToBag({[source_device |-> source_device, timestamp_unix |-> timestamp_unix]})

InsertRow(table, source_device, timestamp_unix) ==
    table (+) SetToBag({[source_device |-> source_device,
                         timestamp_unix |-> timestamp_unix]})

\* the loop of ingest_metrics / ingest_events over the first n lines of the
\* log: a yielded record is inserted and counted, unless its INSERT raises
\* sqlite3.Error (line numbers in `fails`), which is logged and passed over
IngestLoop(table, lines, n, since_unix, source_device, fails) ==
    LET F[i \in 0..n] ==
            IF i = 0 THEN [table |-> table, count |-> 0]
            ELSE IF Yields(lines[i], since_unix) /\ i \notin fails
                 THEN [table |-> InsertRow(F[i - 1].table, source_device, lines[i]),
                       count |-> F[i - 1].count + 1]
                 ELSE F[i - 1]
    IN F[n]

\* the line numbers whose records the parser yields
Yielded(lines, since_unix) == {i \in DOMAIN lines : Yields(lines[i], since_unix)}

\* what is committed while the loop of ingest_metrics / ingest_events runs:
\* self.conn.commit() comes after the loop
CommittedInLoop_each_row(committed, pending) == pending

CommittedInLoop(committed, pending) == committed

\* ingest_metrics / ingest_events on the connection's view `pending` of the
\* tables: the loop over the yielded records, then self.conn.commit()
Ingest(pending, kind, lines, since_unix, source_device, fails) ==
    LET r == IngestLoop(pending[kind], lines, Len(lines), since_unix, source_device, fails)
    IN [committed |-> [pending EXCEPT ![kind] = r.table], count |-> r.count]

\* the process is killed inside the loop, after n lines: what stays committed
KilledInLoop(committed, kind, lines, n, since_unix, source_device, fails) ==
    LET r == IngestLoop(committed[kind], lines, n, since_unix, source_device, fails)
    IN CommittedInLoop(committed, [committed EXCEPT ![kind] = r.table])

NoCounts == [metrics |-> 0, events |-> 0]

TelemetryInit ==
    /\ tdb = EmptyStore
    /\ tpc = "idle"
    /\ tdev = 1
    /\ tlog = NoLogs
    /\ twm = NoCounts
    /\ tcount = NoCounts
    /\ tphase = "none"
    /\ truns = 0
    /\ tdb0 = EmptyStore
    /\ tmid = EmptyStore
    /\ torig = EmptyStore
    /\ tfailed = NoCounts
    /\ tretry = FALSE

\* main, lines 382-389: read both watermarks
Watermarks(device) == [k \in Kinds |-> get_last_timestamp(tdb[k], device)]

\* the INSERTs of one run that raise sqlite3.Error: positions of yielded
\* records in the metrics log and in the events log
FailChoices(device, logs) ==
    {f \in (SUBSET Yielded(logs.metrics, Watermarks(device).metrics))
              \X (SUBSET Yielded(logs.events, Watermarks(device).events)) :
        Cardinality(f[1]) + Cardinality(f[2]) <= MaxFails}

\* main, lines 382-405: watermarks, ingest_metrics, ingest_events
Main(device, logs, fm, fe) ==
    LET wm == Watermarks(device)
        m == Ingest(tdb, "metrics", logs.metrics, wm.metrics, device, fm)
        e == Ingest(m.committed, "events", logs.events, wm.events, device, fe)
    IN /\ tdev' = device
       /\ tlog' = logs
       /\ twm' = wm
       /\ tdb0' = tdb
       /\ tmid' = m.committed
       /\ tdb' = e.committed
       /\ tcount' = [metrics |-> m.count, events |-> e.count]
       /\ tfailed' = [metrics |-> tfailed.metrics + Cardinality(fm),
                      events |-> tfailed.events + Cardinality(fe)]
       /\ tpc' = "done"

\* main, killed inside ingest_metrics (phase "metrics") or inside
\* ingest_events (phase "events"), after n lines of that loop
MainKilled(device, logs, phase, n, fm, fe) ==
    LET wm == Watermarks(device)
        m == Ingest(tdb, "metrics", logs.metrics, wm.metrics, device, fm)
        start == IF phase = "metrics" THEN tdb ELSE m.committed
        fails == IF phase = "metrics" THEN fm ELSE fe
    IN /\ tdev' = device
       /\ tlog' = logs
       /\ twm' = wm
       /\ tdb0' = tdb
       /\ tmid' = start
       /\ tdb' = KilledInLoop(start, phase, logs[phase], n, wm[phase], device, fails)
       /\ tcount' = [metrics |-> IF phase = "metrics" THEN 0 ELSE m.count, events |-> 0]
       /\ tfailed' = [metrics |-> IF phase = "metrics" THEN 0 ELSE Cardinality(fm),
                      events |-> 0]
       /\ tphase' = phase
       /\ tpc' = "killed"

TelemetryRun ==
    /\ tpc = "idle"
    /\ truns < MaxRuns
    /\ truns' = truns + 1
    /\ tretry' = FALSE
    /\ torig' = tdb
    /\ tphase' = "none"
    /\ \E device \in 1..MaxDev, logs \in LogPairs :
          \E f \in FailChoices(device, logs) : Main(device, logs, f[1], f[2])
    /\ UNCHANGED <<fvars, ivars, lvars, svars, cvars, avars>>

TelemetryKilled ==
    /\ tpc = "idle"
    /\ truns < MaxRuns
    /\ truns' = truns + 1
    /\ tretry' = FALSE
    /\ torig' = tdb
    /\ \E device \in 1..MaxDev, logs \in LogPairs, phase \in Kinds :
          \E n \in 0..Len(logs[phase]), f \in FailChoices(device, logs) :
             MainKilled(device, logs, phase, n, f[1], f[2])
    /\ UNCHANGED <<fvars, ivars, lvars, svars, cvars, avars>>

\* the run after a killed one, on the same device and logs
TelemetryRetry ==
    /\ tpc = "killed"
    /\ tretry' = TRUE
    /\ \E f \in FailChoices(tdev, tlog) : Main(tdev, tlog, f[1], f[2])
    /\ UNCHANGED <<truns, torig, tphase>>
    /\ UNCHANGED <<fvars, ivars, lvars, svars, cvars, avars>>

\* the process has ended; nothing of it remains but the committed tables
TelemetryExit ==
    /\ tpc \in {"done", "killed"}
    /\ tpc' = "idle"
    /\ tdev' = 1
    /\ tlog' = NoLogs
    /\ twm' = NoCounts
    /\ tcount' = NoCounts
    /\ tphase' = "none"
    /\ tdb0' = tdb
    /\ tmid' = tdb
    /\ torig' = tdb
    /\ tfailed' = NoCounts
    /\ tretry' = FALSE
    /\ UNCHANGED <<tdb, truns>>
    /\ UNCHANGED <<fvars, ivars, lvars, svars, cvars, avars>>

TelemetryNext ==
    \/ TelemetryRun
    \/ TelemetryKilled
    \/ TelemetryRetry
    \/ TelemetryExit

FlattenIdle ==
    /\ fmapping = ExampleMapping
    /\ fpc = "done"
    /\ fcall = 1
    /\ fstack = <<>>
    /\ fvisited = {}
    /\ fout = <<>>
    /\ fdisc = [n \in NodeIds |-> 0]

FlattenInit ==
    /\ \E n \in 1..MaxNodes :
       \E kinds \in [1..n -> MessageKinds], edges \in SeqsUpTo((1..n) \X NodeIds, MaxEdges) :
          fmapping = MappingOf(n, kinds, edges)
    /\ fpc = "call"
    /\ fcall = RootId(fmapping)
    /\ fstack = <<>>
    /\ fvisited = {}
    /\ fout = <<>>
    /\ fdisc = [n \in NodeIds |-> 0]

Top == fstack[Len(fstack)]

\* hand `msgs` back to the caller: messages.extend(...) in the calling frame,
\* or the result of the outermost call
ReturnTo(stack, msgs) ==
    IF stack = <<>>
    THEN /\ fpc' = "done"
         /\ fout' = msgs
         /\ fstack' = stack
    ELSE /\ fpc' = "loop"
         /\ fout' = fout
         /\ fstack' = [stack EXCEPT ![Len(stack)].messages = @ \o msgs]

\* line 40-41: already visited or unknown id: return []
CallSkip ==
    /\ fpc = "call"
    /\ ~Visitable(fmapping, fcall, fvisited)
    /\ ReturnTo(fstack, <<>>)
    /\ UNCHANGED <<fmapping, fcall, fvisited, fdisc>>
    /\ UNCHANGED <<ivars, tvars, lvars, svars, cvars, avars>>

\* line 43-55: mark visited, take the node's own message
CallEnter ==
    /\ fpc = "call"
    /\ Visitable(fmapping, fcall, fvisited)
    /\ ~MetadataRaises(fmapping, fcall)
    /\ fvisited' = fvisited \cup {fcall}
    /\ fstack' = Append(fstack, [node |-> fcall, i |-> 1,
                                 messages |-> OwnMessages(fmapping, fcall),
                                 before |-> fvisited])
    /\ fdisc' = [fdisc EXCEPT ![fcall] = IF fstack = <<>> THEN 0 ELSE Top.node]
    /\ fpc' = "loop"
    /\ UNCHANGED <<fmapping, fcall, fout>>
    /\ UNCHANGED <<ivars, tvars, lvars, svars, cvars, avars>>

\* line 58-59: recurse into the next child
NextChild ==
    /\ fpc = "loop"
    /\ ~ChildrenRaise(fmapping, Top.node)
    /\ Top.i <= Len(fmapping[Top.node].children)
    /\ fcall' = ChildAt(fmapping[Top.node].children, Top.i)
    /\ fstack' = [fstack EXCEPT ![Len(fstack)].i = @ + 1]
    /\ fpc' = "call"
    /\ UNCHANGED <<fmapping, fvisited, fout, fdisc>>
    /\ UNCHANGED <<ivars, tvars, lvars, svars, cvars, avars>>

\* line 61: return messages
Return ==
    /\ fpc = "loop"
    /\ ~ChildrenRaise(fmapping, Top.node)
    /\ Top.i > Len(fmapping[Top.node].children)
    /\ ReturnTo(SubSeq(fstack, 1, Len(fstack) - 1), Top.messages)
    /\ fvisited' = VisitedAfterCall(Top.before, fvisited)
    /\ UNCHANGED <<fmapping, fcall, fdisc>>
    /\ UNCHANGED <<ivars, tvars, lvars, svars, cvars, avars>>

FlattenNext == CallSkip \/ CallEnter \/ NextChild \/ Return

\* a traversal about to start on a mapping that may hold malformed nodes
MalformedInit ==
    /\ \E n \in 1..MaxMalformedNodes :
       \E kinds \in [1..n -> MessageKinds \cup {"nullmeta"}],
          edges \in SeqsUpTo((1..n) \X NodeIds, MaxEdges),
          nulls \in SUBSET (1..n) :
          fmapping = MalformedMappingOf(n, kinds, edges, nulls)
    /\ fpc = "call"
    /\ fcall = RootId(fmapping)
    /\ fstack = <<>>
    /\ fvisited = {}
    /\ fout = <<>>
    /\ fdisc = [n \in NodeIds |-> 0]

\* line 43-52: the node is marked visited, then metadata.get raises
\* AttributeError; no frame catches it and the outermost call returns nothing
CallRaises ==
    /\ fpc = "call"
    /\ Visitable(fmapping, fcall, fvisited)
    /\ MetadataRaises(fmapping, fcall)
    /\ fvisited' = fvisited \cup {fcall}
    /\ fstack' = <<>>
    /\ fout' = <<>>
    /\ fpc' = "raised"
    /\ UNCHANGED <<fmapping, fcall, fdisc>>
    /\ UNCHANGED <<ivars, tvars, lvars, svars, cvars, avars>>

\* line 58: the for statement raises TypeError on children = None
LoopRaises ==
    /\ fpc = "loop"
    /\ ChildrenRaise(fmapping, Top.node)
    /\ fstack' = <<>>
    /\ fout' = <<>>
    /\ fpc' = "raised"
    /\ UNCHANGED <<fmapping, fcall, fvisited, fdisc>>
    /\ UNCHANGED <<ivars, tvars, lvars, svars, cvars, avars>>

MalformedNext == FlattenNext \/ CallRaises \/ LoopRaises

\* ------------------------------------------------------------------------
\* Voice sessions: voice_parser.link_sessions and VoiceIngester.
\* A scanned file is identified by its file_path (its place in the scan);
\* a timestamp is the YYYYMMDD_HHMMSS of the file name, in seconds.
\* ------------------------------------------------------------------------
NoFile == 0

Clock == 0..MaxClock

\* scan_audio, scan_transcripts: the files in directory order
ScanAudio(stamps) ==
    [i \in DOMAIN stamps |-> [file_path |-> i, timestamp |-> stamps[i]]]

ScanTranscripts(files) ==
    [i \in DOMAIN files |->
        [file_path |-> i, timestamp |-> files[i][1], word_count |-> files[i][2]]]

\* list.sort(key=lambda x: x.timestamp): ascending and stable
InsertSorted(sorted, x) ==
    LET k == Cardinality({j \in DOMAIN sorted : sorted[j].timestamp <= x.timestamp})
    IN SubSeq(sorted, 1, k) \o <<x>> \o SubSeq(sorted, k + 1, Len(sorted))

SortByTimestamp(files) ==
    LET F[i \in 0..Len(files)] ==
            IF i = 0 THEN <<>> ELSE InsertSorted(F[i - 1], files[i])
    IN F[Len(files)]

\* abs(transcript.timestamp - audio.timestamp)
AbsDiff(a, b) == IF a >= b THEN a - b ELSE b - a

\* diff < best_diff
Improves_always(diff, best_diff) == TRUE

Improves(diff, best_diff) == diff < best_diff

\* lines 214-224: the inner loop; the index of best_match in
\* transcript_files, 0 for None
BestMatch(audio, transcript_files, used_transcripts, max_time_diff_seconds) ==
    LET F[i \in 0..Len(transcript_files)] ==
            IF i = 0
            THEN [best_match |-> 0, best_diff |-> max_time_diff_seconds + 1]
            ELSE LET transcript == transcript_files[i]
                     diff == AbsDiff(transcript.timestamp, audio.timestamp)
                 IN IF transcript.file_path \in used_transcripts THEN F[i - 1]
                    ELSE IF /\ Improves(diff, F[i - 1].best_diff)
                            /\ diff <= max_time_diff_seconds
                         THEN [best_match |-> i, best_diff |-> diff]
                         ELSE F[i - 1]
    IN F[Len(transcript_files)].best_match

\* used_transcripts.add(best_match.file_path)
MarkUsed_forgotten(used_transcripts, file_path) == used_transcripts

MarkUsed(used_transcripts, file_path) == used_transcripts \cup {file_path}

\* lines 229-235: the record yielded for an audio and its best_match (0: None)
AudioSession(audio, transcript_files, best_match) ==
    [audio |-> audio.file_path,
     transcript |-> IF best_match = 0 THEN NoFile
                    ELSE transcript_files[best_match].file_path,
     success |-> best_match # 0 /\ transcript_files[best_match].word_count > 0,
     created_at |-> audio.timestamp]

\* lines 240-246: the record yielded for an orphan transcript
OrphanSession(transcript) ==
    [audio |-> NoFile,
     transcript |-> transcript.file_path,
     success |-> transcript.word_count > 0,
     created_at |-> transcript.timestamp]

\* the orphan loop: the first transcript at or after position j that is not
\* in used_transcripts; 0 when the loop ends
NextOrphan(transcript_files, used_transcripts, j) ==
    LET S == {k \in j..Len(transcript_files) :
                 transcript_files[k].file_path \notin used_transcripts}
    IN IF S = {} THEN 0 ELSE CHOOSE k \in S : \A m \in S : k <= m

\* the tables of the voice store
NoRef == 0

EmptyVoiceStore == [audio |-> {}, transcripts |-> {}, voice_sessions |-> <<>>]

\* cursor.lastrowid of an INSERT into a table with rowid primary key
LastRowId(rows) == IF rows = {} THEN 1 ELSE 1 + MaxOf({r.id : r \in rows})

RowIdOf(rows, file_path) ==
    IF \E r \in rows : r.file_path = file_path
    THEN (CHOOSE r \in rows : r.file_path = file_path).id
    ELSE NoRef

\* VoiceIngester.ingest_session, lines 265-341
ingest_session(store, session, transcript_files) ==
    LET audio_new == session.audio # NoFile /\ RowIdOf(store.audio, session.audio) = NoRef
        audio_rows == IF audio_new
                      THEN store.audio \cup {[id |-> LastRowId(store.audio),
                                              file_path |-> session.audio]}
                      ELSE store.audio
        audio_id == IF session.audio = NoFile THEN NoRef
                    ELSE RowIdOf(audio_rows, session.audio)
        tr_new == /\ session.transcript # NoFile
                  /\ RowIdOf(store.transcripts, session.transcript) = NoRef
        words == (CHOOSE t \in Range(transcript_files) :
                     t.file_path = session.transcript).word_count
        tr_rows == IF tr_new
                   THEN store.transcripts \cup
                           {[id |-> LastRowId(store.transcripts),
                             file_path |-> session.transcript,
                             audio_id |-> audio_id,
                             word_count |-> words]}
                   ELSE store.transcripts
        transcript_id == IF session.transcript = NoFile THEN NoRef
                         ELSE RowIdOf(tr_rows, session.transcript)
    IN [audio |-> audio_rows,
        transcripts |-> tr_rows,
        voice_sessions |-> Append(store.voice_sessions,
                                  [audio_id |-> audio_id,
                                   transcript_id |-> transcript_id,
                                   success |-> session.success])]

\* the transcripts table after DELETE FROM audio WHERE id = ? on a connection
\* with foreign_keys = ON: the reference is declared ON DELETE SET NULL
OnAudioDelete_cascade(transcripts, audio_id) ==
    {t \in transcripts : t.audio_id # audio_id}

OnAudioDelete(transcripts, audio_id) ==
    {IF t.audio_id = audio_id THEN [t EXCEPT !.audio_id = NoRef] ELSE t :
        t \in transcripts}

LinkIdle ==
    /\ laudio = <<>>
    /\ ltrans = <<>>
    /\ lwin = 0
    /\ lpc = "idle"
    /\ li = 1
    /\ lj = 1
    /\ lused = {}
    /\ lout = <<>>
    /\ vdb = EmptyVoiceStore
    /\ vdeleted = 0

\* lines 198-211: main calls link_sessions on the scanned directories
LinkInit ==
    /\ \E stamps \in SeqsUpTo(Clock, MaxAudio),
          files \in SeqsUpTo(Clock \X (0..MaxWords), MaxTranscripts) :
          /\ laudio = SortByTimestamp(ScanAudio(stamps))
          /\ ltrans = SortByTimestamp(ScanTranscripts(files))
    /\ lwin \in 1..MaxWindow
    /\ lpc = "linking"
    /\ li = 1
    /\ lj = 1
    /\ lused = {}
    /\ lout = <<>>
    /\ vdb = EmptyVoiceStore
    /\ vdeleted = 0

\* one iteration of main's loop: the generator runs lines 213-235 for the
\* next audio and yields; ingest_session stores the record
LinkAudio ==
    /\ lpc = "linking"
    /\ li <= Len(laudio)
    /\ LET best_match == BestMatch(laudio[li], ltrans, lused, lwin)
           session == AudioSession(laudio[li], ltrans, best_match)
       IN /\ lused' = IF best_match # 0
                      THEN MarkUsed(lused, ltrans[best_match].file_path)
                      ELSE lused
          /\ lout' = Append(lout, session)
          /\ vdb' = ingest_session(vdb, session, ltrans)
    /\ li' = li + 1
    /\ UNCHANGED <<laudio, ltrans, lwin, lpc, lj, vdeleted>>
    /\ UNCHANGED <<fvars, ivars, tvars, svars, cvars, avars>>

\* one iteration of main's loop: the generator runs lines 238-246 up to the
\* next transcript not in used_transcripts and yields; ingest_session stores it
LinkOrphan ==
    /\ lpc = "linking"
    /\ li > Len(laudio)
    /\ NextOrphan(ltrans, lused, lj) # 0
    /\ LET k == NextOrphan(ltrans, lused, lj)
           session == OrphanSession(ltrans[k])
       IN /\ lout' = Append(lout, session)
          /\ vdb' = ingest_session(vdb, session, ltrans)
          /\ lj' = k + 1
    /\ UNCHANGED <<laudio, ltrans, lwin, lpc, li, lused, vdeleted>>
    /\ UNCHANGED <<fvars, ivars, tvars, svars, cvars, avars>>

\* the generator is exhausted: main closes the ingester
LinkEnd ==
    /\ lpc = "linking"
    /\ li > Len(laudio)
    /\ NextOrphan(ltrans, lused, lj) = 0
    /\ lpc' = "done"
    /\ UNCHANGED <<laudio, ltrans, lwin, li, lj, lused, lout, vdb, vdeleted>>
    /\ UNCHANGED <<fvars, ivars, tvars, svars, cvars, avars>>

\* DELETE FROM audio WHERE id = ?, committed, through a connection of
\* api/database.py (PRAGMA foreign_keys=ON)
DeleteAudio ==
    /\ vdeleted < MaxDeletes
    /\ \E a \in vdb.audio :
          vdb' = [vdb EXCEPT !.audio = @ \ {a},
                             !.transcripts = OnAudioDelete(@, a.id)]
    /\ vdeleted' = vdeleted + 1
    /\ UNCHANGED <<laudio, ltrans, lwin, lpc, li, lj, lused, lout>>
    /\ UNCHANGED <<fvars, ivars, tvars, svars, cvars, avars>>

VoiceNext == LinkAudio \/ LinkOrphan \/ LinkEnd \/ DeleteAudio

\* ------------------------------------------------------------------------
\* Session logs: ClaudeParser._parse_session_file.  The kind of a line is
\*   "user", "assistant" : a JSON object of that type (a turn line)
\*   "summary"           : a JSON object of type summary
\*   "other"             : a JSON object of any other type
\*   "badjson"           : text that json.loads rejects
\*   "raises"            : JSON that is not an object (data.get raises)
\*   "undecodable"       : bytes that are not UTF-8
\* A turn line has a fault:
\*   "none"              : every field extracts
\*   "message"           : "message" is null, _extract_content raises
\*   "output_tokens"     : usage.output_tokens is null, `total_output +=` raises
\* ------------------------------------------------------------------------
LineKinds == {"user", "assistant", "summary", "other", "badjson", "raises", "undecodable"}

TurnKinds == {"user", "assistant"}

Faults == {"none", "message", "output_tokens"}

\* data.get('timestamp', ''): no timestamp
NoStamp == 0

\* timestamp strings, numbered in their string order (the order of min and
\* max on strings): the odd ones are ISO strings of one format, in time
\* order, the even ones strings that datetime.fromisoformat rejects
Stamps == 1..(2 * MaxStamp)

Parses(ts) == ts % 2 = 1

\* the instant of an ISO string, in seconds
Instant(ts) == (ts + 1) \div 2

\* None for a model, version or branch
NoName == 0

\* duration_seconds = None
NoDuration == -1

\* a line all of whose optional fields are absent
PlainLine(kind) ==
    [kind |-> kind, fault |-> "none", timestamp |-> NoStamp, model |-> NoName,
     gitBranch |-> NoName, input_tokens |-> 0, output_tokens |-> 0]

\* lines of every kind, and turn lines of every fault
KindLines ==
    {PlainLine(k) : k \in LineKinds}
        \cup {[PlainLine(k) EXCEPT !.fault = f] : k \in TurnKinds, f \in Faults}

\* turn lines with and without a timestamp
StampLines ==
    {[PlainLine("user") EXCEPT !.timestamp = t, !.fault = f] :
        t \in {NoStamp} \cup Stamps, f \in {"none", "message"}}

\* turn lines with and without a model and a branch; a null message has no model
FieldLines ==
    {[PlainLine("assistant") EXCEPT !.model = m, !.gitBranch = b] :
        m \in 0..MaxModels, b \in 0..MaxBranches}
        \cup {[PlainLine("assistant") EXCEPT !.gitBranch = b, !.fault = "message"] :
                b \in 0..MaxBranches}

\* turn lines with token counters
TokenLines ==
    {[PlainLine(k) EXCEPT !.input_tokens = i, !.output_tokens = o] :
        k \in TurnKinds, i \in 0..MaxTokens, o \in 0..MaxTokens}
        \cup {[PlainLine(k) EXCEPT !.input_tokens = i, !.fault = "output_tokens"] :
                k \in TurnKinds, i \in 0..MaxTokens}

\* the session files: up to MaxLines lines that differ in kind and fault, in
\* timestamps, in model and branch, or in token counters
SessionLogs ==
    SeqsUpTo(KindLines, MaxLines) \cup SeqsUpTo(StampLines, MaxLines)
        \cup SeqsUpTo(FieldLines, MaxLines) \cup SeqsUpTo(TokenLines, MaxLines)

\* line 204: reading the next line of a file opened with encoding='utf-8'
\* raises UnicodeDecodeError, outside the try of the loop body
ReadRaises(line) == line.kind = "undecodable"

\* lines 213-277: a turn line is appended to `messages`
Captured(line) == line.kind \in TurnKinds /\ line.fault = "none"

\* line 273: sequence_number=seq_num, the counter of enumerate(f, 1)
SequenceOf_emitted(seq_num, messages) == Len(messages) + 1

SequenceOf(seq_num, messages) == seq_num

\* lines 251-276: the ClaudeMessage of a turn line
MessageOf(line, seq_num, messages) ==
    [message_type |-> line.kind,
     sequence_number |-> SequenceOf(seq_num, messages),
     timestamp |-> line.timestamp,
     model |-> line.model,
     git_branch |-> line.gitBranch,
     input_tokens |-> line.input_tokens,
     output_tokens |-> line.output_tokens]

\* lines 215-217: if ts: timestamps.append(ts)
TimestampsAfter(timestamps, line) ==
    IF line.kind \in TurnKinds /\ line.timestamp # NoStamp
    THEN Append(timestamps, line.timestamp) ELSE timestamps

\* lines 222-223: if not git_branch: git_branch = data.get('gitBranch')
BranchAfter(git_branch, line) ==
    IF line.kind \in TurnKinds /\ git_branch = NoName THEN line.gitBranch
    ELSE git_branch

\* lines 226-232, reached unless _extract_content raised
ModelsAfter(models_used, line) ==
    IF line.kind \in TurnKinds /\ line.fault # "message" /\ line.model # NoName
    THEN models_used \cup {line.model} ELSE models_used

\* lines 239-242: total_input is added before total_output raises
TotalsAfter(totals, line) ==
    IF line.kind \in TurnKinds /\ line.fault # "message"
    THEN [input |-> totals.input + line.input_tokens,
          output |-> IF line.fault = "none"
                     THEN totals.output + line.output_tokens ELSE totals.output]
    ELSE totals

\* lines 244-247
CountsAfter(counts, line) ==
    IF Captured(line)
    THEN [counts EXCEPT ![line.kind] = @ + 1]
    ELSE counts

\* lines 288-289: min and max of the strings, None without one
MinStamp(timestamps) ==
    IF timestamps = <<>> THEN NoStamp
    ELSE CHOOSE t \in Range(timestamps) : \A u \in Range(timestamps) : t <= u

MaxStampOf(timestamps) ==
    IF timestamps = <<>> THEN NoStamp
    ELSE CHOOSE t \in Range(timestamps) : \A u \in Range(timestamps) : u <= t

\* lines 290-297: both ends are parsed, any failure leaves None
Duration(started_at, ended_at) ==
    IF started_at # NoStamp /\ ended_at # NoStamp
          /\ Parses(started_at) /\ Parses(ended_at)
    THEN Instant(ended_at) - Instant(started_at)
    ELSE NoDuration

\* line 310: list(models_used)[0], the first element in the iteration order
\* of a set of strings, which the hash seed of the process decides
PrimaryModels(models_used) ==
    IF models_used = {} THEN {NoName} ELSE models_used

NoSession == [total_messages |-> 0]

\* lines 306-327
SessionOf(messages, timestamps, git_branch, model_primary, totals, counts) ==
    [model_primary |-> model_primary,
     git_branch |-> git_branch,
     total_messages |-> Len(messages),
     user_messages |-> counts.user,
     assistant_messages |-> counts.assistant,
     total_input_tokens |-> totals.input,
     total_output_tokens |-> totals.output,
     started_at |-> MinStamp(timestamps),
     ended_at |-> MaxStampOf(timestamps),
     duration_seconds |-> Duration(MinStamp(timestamps), MaxStampOf(timestamps)),
     messages |-> messages]

SessionLocals ==
    /\ sline = 1
    /\ smessages = <<>>
    /\ ssummaries = <<>>
    /\ sresult = "none"
    /\ stimestamps = <<>>
    /\ sbranch = NoName
    /\ smodels = {}
    /\ stotals = [input |-> 0, output |-> 0]
    /\ scounts = [user |-> 0, assistant |-> 0]
    /\ ssession = NoSession

SessionIdle ==
    /\ slog = <<>>
    /\ spc = "idle"
    /\ SessionLocals

\* lines 183-203: the file exists and is opened
SessionInit ==
    /\ slog \in SessionLogs
    /\ spc = "lines"
    /\ SessionLocals

\* lines 204-282: one iteration of the loop; JSONDecodeError and Exception
\* are caught inside it
SessionLine ==
    /\ spc = "lines"
    /\ sline <= Len(slog)
    /\ ~ReadRaises(slog[sline])
    /\ smessages' = IF Captured(slog[sline])
                    THEN Append(smessages, MessageOf(slog[sline], sline, smessages))
                    ELSE smessages
    /\ ssummaries' = IF slog[sline].kind = "summary" THEN Append(ssummaries, sline)
                     ELSE ssummaries
    /\ stimestamps' = TimestampsAfter(stimestamps, slog[sline])
    /\ sbranch' = BranchAfter(sbranch, slog[sline])
    /\ smodels' = ModelsAfter(smodels, slog[sline])
    /\ stotals' = TotalsAfter(stotals, slog[sline])
    /\ scounts' = CountsAfter(scounts, slog[sline])
    /\ sline' = sline + 1
    /\ UNCHANGED <<slog, spc, sresult, ssession>>
    /\ UNCHANGED <<fvars, ivars, tvars, lvars, cvars, avars>>

\* line 204: the iteration over the file raises; nothing in the function
\* catches it
SessionReadRaises ==
    /\ spc = "lines"
    /\ sline <= Len(slog)
    /\ ReadRaises(slog[sline])
    /\ spc' = "raised"
    /\ UNCHANGED <<slog, sline, smessages, ssummaries, sresult>>
    /\ UNCHANGED <<stimestamps, sbranch, smodels, stotals, scounts, ssession>>
    /\ UNCHANGED <<fvars, ivars, tvars, lvars, cvars, avars>>

\* lines 284-327: None without messages, else the ClaudeSession
SessionReturn ==
    /\ spc = "lines"
    /\ sline > Len(slog)
    /\ IF smessages = <<>>
       THEN sresult' = "none" /\ ssession' = NoSession
       ELSE /\ sresult' = "session"
            /\ \E model_primary \in PrimaryModels(smodels) :
                  ssession' = SessionOf(smessages, stimestamps, sbranch,
                                        model_primary, stotals, scounts)
    /\ spc' = "returned"
    /\ UNCHANGED <<slog, sline, smessages, ssummaries>>
    /\ UNCHANGED <<stimestamps, sbranch, smodels, stotals, scounts>>
    /\ UNCHANGED <<fvars, ivars, tvars, lvars, cvars, avars>>

SessionNext == SessionLine \/ SessionReadRaises \/ SessionReturn

\* ------------------------------------------------------------------------
\* DatalakeIngester.ingest_session over session files that grow.  Every line
\* of the files is a turn line that extracts, so the parsed session agrees
\* with its messages.
\* ------------------------------------------------------------------------
\* cursor.lastrowid / None
NoRow == 0

\* turn line i of a session file
TurnLine(i) ==
    [PlainLine(IF i % 2 = 1 THEN "user" ELSE "assistant") EXCEPT
        !.timestamp = 2 * i - 1, !.input_tokens = 1, !.output_tokens = i % 2]

\* the messages _parse_session_file builds from a file of n turn lines
ParsedMessages(n) == [i \in 1..n |-> MessageOf(TurnLine(i), i, <<>>)]

\* the ClaudeSession _parse_session_file returns for a file of n turn lines
ParsedSession(n) ==
    SessionOf(ParsedMessages(n), [i \in 1..n |-> TurnLine(i).timestamp], NoName,
              NoName, [input |-> n, output |-> (n + 1) \div 2],
              [user |-> (n + 1) \div 2, assistant |-> n \div 2])

EmptyClaudeStore == [sessions |-> <<>>, messages |-> <<>>]

\* SELECT id FROM claude_sessions WHERE session_id = ?
FindSession(t, session_id) ==
    LET S == {k \in DOMAIN t.sessions : t.sessions[k].session_id = session_id}
    IN IF S = {} THEN NoRow ELSE CHOOSE k \in S : \A j \in S : k <= j

\* the row of INSERT OR IGNORE INTO claude_sessions
SessionRow(session_id, session) ==
    [session_id |-> session_id,
     total_messages |-> session.total_messages,
     total_input_tokens |-> session.total_input_tokens,
     total_output_tokens |-> session.total_output_tokens,
     ended_at |-> session.ended_at]

\* the row of INSERT OR IGNORE INTO claude_messages; the uuid of a line is
\* its own
ClaudeMessageRow(session_db_id, session_id, msg) ==
    [session_id |-> session_db_id,
     message_uuid |-> <<session_id, msg.sequence_number>>,
     input_tokens |-> msg.input_tokens,
     output_tokens |-> msg.output_tokens,
     timestamp |-> msg.timestamp]

\* INSERT OR IGNORE INTO claude_messages, one row after the other
InsertMessages(rows, session_db_id, session_id, messages, unique) ==
    LET F[i \in 0..Len(messages)] ==
            IF i = 0 THEN rows
            ELSE LET row == ClaudeMessageRow(session_db_id, session_id, messages[i])
                 IN IF unique /\ \E k \in DOMAIN F[i - 1] :
                                    F[i - 1][k].message_uuid = row.message_uuid
                    THEN F[i - 1]
                    ELSE Append(F[i - 1], row)
    IN F[Len(messages)]

\* ingest_session, lines 434-536: the tables after the commit and the id returned
claude_ingest_session(t, session_id, session, unique) ==
    LET existing == FindSession(t, session_id)
        session_db_id == IF existing = NoRow THEN Len(t.sessions) + 1 ELSE existing
        sessions == IF existing = NoRow
                    THEN Append(t.sessions, SessionRow(session_id, session))
                    ELSE t.sessions
    IN [tables |-> [sessions |-> sessions,
                    messages |-> InsertMessages(t.messages, session_db_id, session_id,
                                                session.messages, unique)],
        id |-> session_db_id]

ClaudeIdle ==
    /\ cdb = EmptyClaudeStore
    /\ clen = [sid \in 1..MaxSessions |-> 0]
    /\ cret = NoRow
    /\ cunique = TRUE

\* an empty store; the schema, which decides what INSERT OR IGNORE ignores,
\* is either of the two
ClaudeInit ==
    /\ cdb = EmptyClaudeStore
    /\ clen = [sid \in 1..MaxSessions |-> 0]
    /\ cret = NoRow
    /\ cunique \in BOOLEAN

\* the assistant appends a turn line to a session file
ClaudeAppend(sid) ==
    /\ clen[sid] < MaxTurns
    /\ clen' = [clen EXCEPT ![sid] = @ + 1]
    /\ UNCHANGED <<cdb, cret, cunique>>
    /\ UNCHANGED <<fvars, ivars, tvars, lvars, svars, avars>>

\* parse_sessions yields the session of a file with messages, and
\* ingest_session stores it and commits
ClaudeIngest(sid) ==
    /\ clen[sid] > 0
    /\ Len(cdb.messages) + clen[sid] <= MaxSessions * MaxTurns * 2
    /\ LET r == claude_ingest_session(cdb, sid, ParsedSession(clen[sid]), cunique)
       IN cdb' = r.tables /\ cret' = r.id
    /\ UNCHANGED <<clen, cunique>>
    /\ UNCHANGED <<fvars, ivars, tvars, lvars, svars, avars>>

\* lines 538-541: a statement raises sqlite3.Error, rollback, None
ClaudeIngestFails(sid) ==
    /\ clen[sid] > 0
    /\ cret' = NoRow
    /\ UNCHANGED <<cdb, clen, cunique>>
    /\ UNCHANGED <<fvars, ivars, tvars, lvars, svars, avars>>

ClaudeNext ==
    \E sid \in 1..MaxSessions :
        ClaudeAppend(sid) \/ ClaudeIngest(sid) \/ ClaudeIngestFails(sid)

\* ------------------------------------------------------------------------
\* memory_parser.main run after run over the growing log files of the
\* devices; no INSERT fails and no run is killed here.
\* ------------------------------------------------------------------------
Hosts == 1..MaxHosts

\* get_last_metric_timestamp and get_last_event_timestamp of a device
LastTimestamps(store, device) ==
    [k \in Kinds |-> get_last_timestamp(store[k], device)]

\* the lines in all log files
LinesLogged ==
    LET F[d \in 0..MaxHosts] ==
            IF d = 0 THEN 0
            ELSE F[d - 1] + Len(alog[d].metrics) + Len(alog[d].events)
    IN F[MaxHosts]

GrowingIdle ==
    /\ alog = [d \in Hosts |-> NoLogs]
    /\ adb = EmptyStore
    /\ apc = "idle"
    /\ adev = 1
    /\ awm = NoCounts

\* the monitor of a device appends a line to one of its log files
LogAppend(device, kind, line) ==
    /\ apc \in {"idle", "done"}
    /\ LinesLogged < MaxLog
    /\ alog' = [alog EXCEPT ![device][kind] = Append(@, line)]
    /\ apc' = "idle"
    /\ UNCHANGED <<adb, adev, awm>>
    /\ UNCHANGED <<fvars, ivars, tvars, lvars, svars, cvars>>

\* main, lines 382-389: both watermarks are read
RunStart(device) ==
    /\ apc \in {"idle", "done"}
    /\ alog[device] # NoLogs
    /\ adev' = device
    /\ awm' = LastTimestamps(adb, device)
    /\ apc' = "metrics"
    /\ UNCHANGED <<alog, adb>>
    /\ UNCHANGED <<fvars, ivars, tvars, lvars, svars, cvars>>

\* main, lines 391-396: ingest_metrics over parse_metrics, committed
RunMetrics ==
    /\ apc = "metrics"
    /\ adb' = Ingest(adb, "metrics", alog[adev].metrics, awm.metrics, adev, {}).committed
    /\ apc' = "events"
    /\ UNCHANGED <<alog, adev, awm>>
    /\ UNCHANGED <<fvars, ivars, tvars, lvars, svars, cvars>>

\* main, lines 398-405: ingest_events over parse_events, committed
RunEvents ==
    /\ apc = "events"
    /\ adb' = Ingest(adb, "events", alog[adev].events, awm.events, adev, {}).committed
    /\ apc' = "done"
    /\ UNCHANGED <<alog, adev, awm>>
    /\ UNCHANGED <<fvars, ivars, tvars, lvars, svars, cvars>>

GrowingNext ==
    \/ \E device \in Hosts, kind \in Kinds, line \in Lines : LogAppend(device, kind, line)
    \/ \E device \in Hosts : RunStart(device)
    \/ RunMetrics
    \/ RunEvents

\* ------------------------------------------------------------------------
\* Specifications
\* ------------------------------------------------------------------------
\* the traversal alone, over every mapping within the bounds; the interpreter
\* keeps running the call until it returns
InitFlatten == FlattenInit /\ ImportInit /\ TelemetryInit /\ LinkIdle /\ SessionIdle /\ ClaudeIdle /\ GrowingIdle

SpecFlatten == InitFlatten /\ [][FlattenNext]_vars /\ WF_vars(FlattenNext)

\* the traversal over every mapping within the bounds that may hold
\* malformed nodes
InitMalformed == MalformedInit /\ ImportInit /\ TelemetryInit /\ LinkIdle /\ SessionIdle /\ ClaudeIdle /\ GrowingIdle

SpecMalformed == InitMalformed /\ [][MalformedNext]_vars

\* no traversal in progress, empty tables
InitStore == FlattenIdle /\ ImportInit /\ TelemetryInit /\ LinkIdle /\ SessionIdle /\ ClaudeIdle /\ GrowingIdle

\* successive runs of the archive importer
SpecImport == InitStore /\ [][ImportNext]_vars

\* successive runs of the telemetry ingester
SpecTelemetry == InitStore /\ [][TelemetryNext]_vars

\* either pipeline, from the empty store: runs of the archive importer, or
\* runs of the telemetry ingester
RunsNext ==
    \/ truns = 0 /\ ImportNext
    \/ ipc = "idle" /\ TelemetryNext

SpecRuns == InitStore /\ [][RunsNext]_vars

\* one run of the voice pipeline over every pair of scanned directories
\* within the bounds
InitVoice == FlattenIdle /\ ImportInit /\ TelemetryInit /\ LinkInit /\ SessionIdle /\ ClaudeIdle /\ GrowingIdle

SpecVoice == InitVoice /\ [][VoiceNext]_vars

\* one call of _parse_session_file on every session file within the bounds
InitSession == FlattenIdle /\ ImportInit /\ TelemetryInit /\ LinkIdle /\ SessionInit /\ ClaudeIdle /\ GrowingIdle

SpecSession == InitSession /\ [][SessionNext]_vars

\* successive calls of ingest_session on session files that grow
InitClaude ==
    /\ FlattenIdle /\ ImportInit /\ TelemetryInit /\ LinkIdle /\ SessionIdle
    /\ ClaudeInit /\ GrowingIdle

SpecClaude == InitClaude /\ [][ClaudeNext]_vars

\* successive telemetry runs over the growing logs of the devices
SpecGrowing == InitStore /\ [][GrowingNext]_vars

\* ------------------------------------------------------------------------
\* Properties of the flattening
\* ------------------------------------------------------------------------
\* ids whose message is in the result, and the position of an id's message
Emitted == {fout[i].id : i \in DOMAIN fout}

Pos(n) == CHOOSE i \in DOMAIN fout : fout[i].id = n

\* nodes reachable from the first key through listed child ids
RECURSIVE ReachFrom(_, _)
ReachFrom(mapping, S) ==
    LET T == S \cup {c \in DOMAIN mapping :
                        \E p \in S : c \in Range(mapping[p].children)}
    IN IF T = S THEN S ELSE ReachFrom(mapping, T)

Reachable(mapping) == ReachFrom(mapping, {RootId(mapping)})

\* the chain of calls that led to entering node n (n excluded)
RECURSIVE CallAncestors(_)
CallAncestors(n) ==
    IF fdisc[n] = 0 THEN {} ELSE {fdisc[n]} \cup CallAncestors(fdisc[n])

\* the nodes entered in the subtree of the call on node c
Under(c) == {c} \cup {d \in fvisited : c \in CallAncestors(d)}

FirstIndex(children, c) ==
    CHOOSE i \in DOMAIN children :
        children[i] = c /\ \A j \in 1..(i - 1) : children[j] # c

\* every node listed by at most one node, once, and the first key by none:
\* the mapping is a forest and the first key a root of it
TreeShaped(mapping) ==
    /\ \A n \in DOMAIN mapping :
          Cardinality({pi \in (DOMAIN mapping) \X (1..MaxEdges) :
                          /\ pi[2] <= Len(mapping[pi[1]].children)
                          /\ mapping[pi[1]].children[pi[2]] = n}) <= 1
    /\ \A p \in DOMAIN mapping : RootId(mapping) \notin Range(mapping[p].children)

\* C8: the finished flattening is the depth-first pre-order from the first
\* key: it holds exactly the visible messages of the nodes reachable from the
\* first key; a node's message precedes the messages of the nodes entered
\* below it; the subtrees of two children of one node follow the order in
\* which the node lists them; a node is entered from a node that lists it
\* (in a tree-shaped mapping: from its parent)
C8_PreOrder ==
    fpc = "done" =>
        /\ Emitted = {n \in Reachable(fmapping) : fmapping[n].message = "visible"}
        /\ \A n \in fvisited : fdisc[n] # 0 =>
              /\ n \in Range(fmapping[fdisc[n]].children)
              /\ TreeShaped(fmapping) => fdisc[n] = fmapping[n].parent
        /\ \A n \in Emitted, d \in Emitted :
              n \in CallAncestors(d) => Pos(n) < Pos(d)
        /\ \A a \in fvisited, b \in fvisited :
              (/\ a # b
               /\ fdisc[a] # 0
               /\ fdisc[a] = fdisc[b]
               /\ FirstIndex(fmapping[fdisc[a]].children, a)
                     < FirstIndex(fmapping[fdisc[a]].children, b))
              => \A x \in Under(a) \cap Emitted, y \in Under(b) \cap Emitted :
                    Pos(x) < Pos(y)
        /\ fout = Flatten(fmapping)

C8_Witness ==
    /\ fpc = "done"
    /\ fmapping = ExampleMapping
    /\ fout = <<[id |-> 1, _parent_id |-> 0], [id |-> 2, _parent_id |-> 1],
                [id |-> 3, _parent_id |-> 1]>>

\* a cycle through the first key, or an id listed more than once
HasCycleOrRepeat(mapping) ==
    \/ \E p \in Reachable(mapping) : RootId(mapping) \in Range(mapping[p].children)
    \/ \E n \in DOMAIN mapping :
          Cardinality({pi \in Reachable(mapping) \X (1..MaxEdges) :
                          /\ pi[2] <= Len(mapping[pi[1]].children)
                          /\ mapping[pi[1]].children[pi[2]] = n}) > 1

\* C9: for every mapping, cyclic or with repeated ids included, the
\* traversal terminates, and the result holds the message of each node at
\* most once
C9_TerminatesOnce ==
    /\ <>(fpc = "done")
    /\ [](fpc = "done" => \A n \in NodeIds :
              Cardinality({i \in DOMAIN fout : fout[i].id = n}) <= 1)

\* a run that ended on a mapping whose node 2 lists the first key again
C9_Witness ==
    /\ fpc = "done"
    /\ HasCycleOrRepeat(fmapping)
    /\ 2 \in DOMAIN fmapping
    /\ 1 \in Range(fmapping[2].children)
    /\ {1, 2} \subseteq Emitted

\* C16: the traversal never raises, whatever nodes of the mapping are
\* malformed, and it returns the message of every well-formed node it entered
C16_NeverRaises ==
    /\ fpc # "raised"
    /\ fpc = "done" =>
          \A n \in fvisited : fmapping[n].message = "visible" => n \in Emitted

\* ------------------------------------------------------------------------
\* Properties of the archive import
\* ------------------------------------------------------------------------
\* the step is one call of _import_conversation, on document Incoming
ConversationStep == ipc = "convs" /\ idx' = idx + 1

Incoming == arch.conversations[idx]

\* the stored messages of conversation row c, in row order
MessagesOf(t, c) == SelectSeq(t.messages, LAMBDA m : m.conversation_id = c)

\* the conversation step finds a stored row for the incoming external id and
\* both update timestamps are present
StoredForIncoming == FindConversation(tx, Incoming.id)

ComparableStep ==
    /\ ConversationStep
    /\ StoredForIncoming # 0
    /\ Incoming.update_time # NoTime
    /\ tx.conversations[StoredForIncoming].update_time # NoTime

\* C1: a run on the zip of the run before it, which returned, reports zero
\* new conversations, zero updated conversations and zero messages, and leaves
\* the import batches, conversations and messages as that run left them
C1_Idempotent ==
    (ipc = "done" /\ prev = "done") => (stats = ZeroStats /\ db = db0 /\ tx = db0)

C1_Witness ==
    /\ ipc = "done"
    /\ prev = "done"
    /\ arch.has_json
    /\ Len(arch.conversations) = 2
    /\ FindImport(db, hash_file(arch)) # 0
    /\ db.messages # <<>>

\* C2: an incoming conversation whose external id is stored and whose update
\* timestamp is older than or equal to the stored one is skipped: the stored
\* row and the stored messages of the conversation stay as they are and no
\* message is counted as imported
C2_StaleSkipped ==
    [][(/\ ComparableStep
        /\ Incoming.update_time <= tx.conversations[StoredForIncoming].update_time)
       => /\ tx'.conversations[StoredForIncoming] = tx.conversations[StoredForIncoming]
          /\ MessagesOf(tx', StoredForIncoming) = MessagesOf(tx, StoredForIncoming)
          /\ Len(tx'.conversations) = Len(tx.conversations)
          /\ stats'.messages_imported = stats.messages_imported]_vars

\* a document with the stored update timestamp and another payload has just
\* been skipped: the row still belongs to an earlier batch and has messages
C2_Witness ==
    /\ ipc = "convs"
    /\ idx > 1
    /\ LET c == arch.conversations[idx - 1]
           e == FindConversation(tx, c.id)
       IN /\ e # 0
          /\ c.update_time # NoTime
          /\ c.update_time = tx.conversations[e].update_time
          /\ tx.conversations[e].import_id # import_id
          /\ tx.conversations[e].title # c.title
          /\ MessagesOf(tx, e) # <<>>
          /\ stats.messages_imported = 0

\* C3: an incoming conversation whose external id is stored with a strictly
\* older update timestamp replaces the stored version: afterwards the stored
\* messages of the conversation are exactly the flattened incoming mapping,
\* numbered 0..n-1, and title, update timestamp, model, archival flags and
\* import batch hold the incoming values
C3_NewerReplaces ==
    [][(/\ ComparableStep
        /\ Incoming.update_time > tx.conversations[StoredForIncoming].update_time)
       => LET e == StoredForIncoming
              flat == IF Incoming.mapping = <<>> THEN <<>> ELSE Flatten(Incoming.mapping)
              row == tx'.conversations[e]
          IN /\ MessagesOf(tx', e) =
                  [i \in 1..Len(flat) |->
                      [conversation_id |-> e, message_id |-> flat[i].id,
                       parent_id |-> flat[i]._parent_id, sequence_number |-> i - 1]]
             /\ row.title = Incoming.title
             /\ row.update_time = Incoming.update_time
             /\ row.model_slug = Incoming.default_model_slug
             /\ row.is_archived = Incoming.is_archived
             /\ row.is_starred = Incoming.is_starred
             /\ row.import_id = import_id
             /\ row.conversation_id = Incoming.id]_vars

\* a newer version with another payload has just replaced a version that was
\* stored by an earlier batch
C3_Witness ==
    /\ ipc = "convs"
    /\ idx > 1
    /\ import_id = 2
    /\ LET c == arch.conversations[idx - 1]
           e == FindConversation(tx, c.id)
           old == FindConversation(db, c.id)
       IN /\ e # 0 /\ old # 0
          /\ db.conversations[old].update_time # NoTime
          /\ c.update_time > db.conversations[old].update_time
          /\ db.conversations[old].title # c.title
          /\ MessagesOf(db, old) # <<>>
          /\ tx.conversations[e].title = c.title
          /\ tx.conversations[e].import_id = 2

\* C10: the committed messages of every conversation carry the sequence
\* numbers 0..n-1, each once, and the message with number k is the one at
\* position k of the flattening of the version that was written last (the
\* title of the row names that version)
C10_DenseSequence ==
    \A c \in DOMAIN db.conversations :
        LET ms == MessagesOf(db, c)
            p == db.conversations[c].title
            flat == IF PayloadMapping(p) = <<>> THEN <<>> ELSE Flatten(PayloadMapping(p))
        IN /\ {ms[i].sequence_number : i \in DOMAIN ms} = 0..(Len(ms) - 1)
           /\ \A i \in DOMAIN ms, j \in DOMAIN ms :
                 ms[i].sequence_number = ms[j].sequence_number => i = j
           /\ Len(ms) = Len(flat)
           /\ \A i \in DOMAIN ms : ms[i].message_id = flat[ms[i].sequence_number + 1].id

\* two batches committed, the later one replaced a version that had messages
C10_Witness ==
    /\ ipc = "done"
    /\ Len(db.imports) = 2
    /\ \E c \in DOMAIN db.conversations :
          /\ db.conversations[c].import_id = 2
          /\ c \in DOMAIN db0.conversations
          /\ MessagesOf(db0, c) # <<>>
          /\ Len(MessagesOf(db, c)) = 3

\* C17: a conversation skipped as a stale version is counted neither as a
\* new nor as an updated conversation, and the import goes on
C17_SkipNotCounted ==
    [][(/\ ComparableStep
        /\ Incoming.update_time <= tx.conversations[StoredForIncoming].update_time)
       => /\ stats'.conversations_new = stats.conversations_new
          /\ stats'.conversations_updated = stats.conversations_updated
          /\ ipc' = "convs"]_vars

\* the external ids of the stored conversations
StoredIds(t) == {t.conversations[k].conversation_id : k \in DOMAIN t.conversations}

\* C19: after every step of every import there is at most one stored
\* conversation per external id, in the committed tables and in the
\* importer's view, and every external id that was stored is still stored
C19_OneRowPerExternalId ==
    [][/\ Cardinality(StoredIds(db')) = Len(db'.conversations)
       /\ Cardinality(StoredIds(tx')) = Len(tx'.conversations)
       /\ StoredIds(db) \subseteq StoredIds(db')]_vars

\* an archive listing one external id twice was imported after an earlier
\* archive with that id: one row, counted new by neither document
C19_Witness ==
    /\ ipc = "done"
    /\ Len(arch.conversations) = 2
    /\ arch.conversations[1].id = arch.conversations[2].id
    /\ Len(db.imports) = 2
    /\ Len(db.conversations) = 1
    /\ stats.conversations_new = 0

\* C26: the committed update timestamp of a stored conversation never
\* decreases and never becomes absent: a step leaves it as it is or sets it
\* to a present, strictly newer value
C26_UpdateTimeMonotone ==
    [][\A k \in DOMAIN db.conversations :
          LET old == db.conversations[k].update_time
              new == db'.conversations[k].update_time
          IN \/ new = old
             \/ new # NoTime /\ (old = NoTime \/ new > old)]_vars

\* C27: the message_count of every committed conversation is the number of
\* committed messages of that conversation
C27_MessageCountMatches ==
    \A k \in DOMAIN db.conversations :
        db.conversations[k].message_count = Len(MessagesOf(db, k))

\* import_from_zip is called on an archive whose digest is that of a stored
\* import batch, and returns
DuplicateStart ==
    /\ ipc # "convs"
    /\ ipc' = "done"
    /\ FindImport(db, hash_file(arch')) # 0

\* C21: an import of an archive whose digest is that of a stored import batch
\* writes nothing and returns the counts recorded in that batch: as many
\* conversations (new plus updated) as the batch's conversation_count and as
\* many messages as its message_count
C21_DuplicateReturnsRecorded ==
    [][DuplicateStart
       => LET batch == db.imports[FindImport(db, hash_file(arch'))]
          IN /\ db' = db
             /\ tx' = db
             /\ stats'.conversations_new + stats'.conversations_updated
                    = batch.conversation_count
             /\ stats'.messages_imported = batch.message_count]_vars

\* ------------------------------------------------------------------------
\* Properties of the transactions and of the telemetry ingestion
\* ------------------------------------------------------------------------
\* the rows a log adds for a device above the watermark
NewerRecords(lines, W, device) ==
    LET S == {lines[i] : i \in {j \in DOMAIN lines : lines[j] # BadLine /\ lines[j] > W}}
    IN [r \in {[source_device |-> device, timestamp_unix |-> t] : t \in S}
           |-> Count(lines, r.timestamp_unix)]

\* the maximum timestamp stored for the device, 0 if none
IsWatermark(W, table, device) ==
    LET S == {r \in BagToSet(table) : r.source_device = device}
    IN /\ \A r \in S : r.timestamp_unix <= W
       /\ IF S = {} THEN W = 0 ELSE \E r \in S : r.timestamp_unix = W

\* the stored state an uninterrupted run of main reaches from `store`
UninterruptedRun(store, logs, device) ==
    [k \in Kinds |->
        store[k] (+) NewerRecords(logs[k], get_last_timestamp(store[k], device), device)]

\* the stored state an uninterrupted import_from_zip reaches from `t`
UninterruptedImport(t, zip) ==
    LET import_id_ == Len(t.imports) + 1
        t0 == [t EXCEPT !.imports = Append(@,
                  [zip_hash |-> hash_file(zip),
                   conversation_count |-> Len(zip.conversations),
                   message_count |-> 0])]
        F[i \in 0..Len(zip.conversations)] ==
            IF i = 0 THEN [tables |-> t0, messages_imported |-> 0]
            ELSE LET r == import_conversation(F[i - 1].tables, zip.conversations[i],
                                              import_id_)
                 IN [tables |-> r.tables,
                     messages_imported |-> F[i - 1].messages_imported
                                              + r.messages_imported]
        end == F[Len(zip.conversations)]
    IN [end.tables EXCEPT !.imports[import_id_].message_count = end.messages_imported]

\* C4: a unit in which a write failed stores none of its records: an archive
\* import that raised leaves the tables as they were, and an ingest_metrics
\* or ingest_events call in which an INSERT failed leaves its table as it was
C4_AllOrNothing ==
    /\ ipc = "raised" => db = db0
    /\ (tpc = "done" /\ ~tretry /\ tfailed.metrics > 0) => tdb.metrics = tdb0.metrics
    /\ (tpc = "done" /\ ~tretry /\ tfailed.events > 0) => tdb.events = tdb0.events

C6_Watermark ==
    (tpc = "done" /\ tfailed = NoCounts) =>
        \A k \in Kinds :
            /\ IsWatermark(twm[k], tdb0[k], tdev)
            /\ tdb[k] = tdb0[k] (+) NewerRecords(tlog[k], twm[k], tdev)

\* metrics 1, 3 were stored; the log 2, 4 adds 4 only
C6_Witness ==
    /\ tpc = "done"
    /\ tlog.metrics = <<2, 4>>
    /\ twm.metrics = 3
    /\ BagToSet(tdb0.metrics) = {[source_device |-> 1, timestamp_unix |-> t] : t \in {1, 3}}
    /\ BagToSet(tdb.metrics) = {[source_device |-> 1, timestamp_unix |-> t] : t \in {1, 3, 4}}

\* C7: every stored metric or event row is still stored, with the same
\* fields, after any step of any run
C7_AppendOnly ==
    [][\A k \in Kinds : tdb[k] \sqsubseteq tdb'[k]]_vars

\* a run added rows to both tables, which held rows before
C7_Witness ==
    /\ tpc = "done"
    /\ \A k \in Kinds : /\ tdb0[k] # EmptyBag
                        /\ tdb0[k] \sqsubseteq tdb[k]
                        /\ tdb[k] # tdb0[k]

\* ------------------------------------------------------------------------
\* Properties of the voice linking
\* ------------------------------------------------------------------------
\* the generator yields the record of the next audio
AudioStep == lpc = "linking" /\ li' = li + 1

\* transcripts not yet used and within the window of the audio
Candidates(audio) ==
    {t \in Range(ltrans) : /\ t.file_path \notin lused
                           /\ AbsDiff(t.timestamp, audio.timestamp) <= lwin}

TranscriptAt(file_path) == CHOOSE t \in Range(ltrans) : t.file_path = file_path

LastOut == lout'[Len(lout')]

\* C11: audio items are taken in ascending timestamp order; each is paired
\* with an unused transcript of minimum absolute timestamp difference among
\* those within the window, which becomes used, and is emitted alone when no
\* unused transcript is within the window
C11_GreedyNearest ==
    [][AudioStep =>
          /\ \A k \in 1..(li - 1) : laudio[k].timestamp <= laudio[li].timestamp
          /\ LastOut.audio = laudio[li].file_path
          /\ IF Candidates(laudio[li]) = {}
             THEN LastOut.transcript = NoFile /\ lused' = lused
             ELSE \E t \in Candidates(laudio[li]) :
                     /\ \A u \in Candidates(laudio[li]) :
                           AbsDiff(t.timestamp, laudio[li].timestamp)
                              <= AbsDiff(u.timestamp, laudio[li].timestamp)
                     /\ LastOut.transcript = t.file_path
                     /\ lused' = lused \cup {t.file_path}]_vars

\* audio at 2 and 3, transcripts at 0 and 3, window 2: the audio at 2 takes
\* the transcript at 3, the best match of the audio at 3, which is emitted
\* alone although pairing 2 with 0 and 3 with 3 was possible
C11_Witness ==
    /\ lpc = "done"
    /\ lwin = 2
    /\ [k \in DOMAIN laudio |-> laudio[k].timestamp] = <<2, 3>>
    /\ [k \in DOMAIN ltrans |-> ltrans[k].timestamp] = <<0, 3>>
    /\ Len(lout) = 3
    /\ lout[1].audio = laudio[1].file_path /\ lout[1].transcript = ltrans[2].file_path
    /\ lout[2].audio = laudio[2].file_path /\ lout[2].transcript = NoFile
    /\ lout[3].audio = NoFile /\ lout[3].transcript = ltrans[1].file_path

\* C12: no transcript is in two records; when the generator is exhausted
\* every audio and every transcript is in exactly one record, and the
\* orphan records come after all audio records
C12_ExactlyOnce ==
    /\ \A t \in Range(ltrans) :
          Cardinality({k \in DOMAIN lout : lout[k].transcript = t.file_path}) <= 1
    /\ lpc = "done" =>
          /\ \A a \in Range(laudio) :
                Cardinality({k \in DOMAIN lout : lout[k].audio = a.file_path}) = 1
          /\ \A t \in Range(ltrans) :
                Cardinality({k \in DOMAIN lout : lout[k].transcript = t.file_path}) = 1
          /\ \A k \in DOMAIN lout : lout[k].audio # NoFile \/ lout[k].transcript # NoFile
          /\ \A j, k \in DOMAIN lout :
                (lout[j].audio = NoFile /\ lout[k].audio # NoFile) => k < j

\* audio at 0, transcripts at 1 and 3, window 2: the pair, then the orphan
C12_Witness ==
    /\ lpc = "done"
    /\ lwin = 2
    /\ [k \in DOMAIN laudio |-> laudio[k].timestamp] = <<0>>
    /\ [k \in DOMAIN ltrans |-> ltrans[k].timestamp] = <<1, 3>>
    /\ Len(lout) = 2
    /\ lout[1].audio = laudio[1].file_path /\ lout[1].transcript = ltrans[1].file_path
    /\ lout[2].audio = NoFile /\ lout[2].transcript = ltrans[2].file_path

\* C13: the success flag of a record is true only if its transcript was
\* linked to an audio and has a word count above zero
C13_SuccessOnlyIfLinked ==
    \A k \in DOMAIN lout :
        lout[k].success =>
            /\ lout[k].audio # NoFile
            /\ lout[k].transcript # NoFile
            /\ TranscriptAt(lout[k].transcript).word_count > 0

\* an audio row is deleted
AudioDeleted == vdeleted' = vdeleted + 1

\* C20: when an audio row is deleted every stored transcript stays stored
\* with the same content; its audio reference is null if it referenced the
\* deleted row and is unchanged otherwise
C20_DeleteKeepsTranscript ==
    [][AudioDeleted =>
          \A t \in vdb.transcripts :
              \E u \in vdb'.transcripts :
                 /\ u.id = t.id
                 /\ u.file_path = t.file_path
                 /\ u.word_count = t.word_count
                 /\ u.audio_id = IF \E a \in vdb.audio \ vdb'.audio : a.id = t.audio_id
                                 THEN NoRef ELSE t.audio_id]_vars

\* the audio of a linked transcript was deleted
C20_Witness ==
    /\ vdeleted = 1
    /\ \E t \in vdb.transcripts :
          /\ t.audio_id = NoRef
          /\ \E k \in DOMAIN vdb.voice_sessions :
                /\ vdb.voice_sessions[k].transcript_id = t.id
                /\ vdb.voice_sessions[k].audio_id # NoRef

\* ------------------------------------------------------------------------
\* Properties of the session log parser
\* ------------------------------------------------------------------------
\* the turn lines of the log, by line number
TurnLines == {k \in DOMAIN slog : Captured(slog[k])}

\* C14: no line aborts the stream: the call never raises, and when it ends
\* the messages are exactly the turn lines of the log, in order
C14_BadLineSkipped ==
    /\ spc # "raised"
    /\ spc = "returned" =>
          /\ {smessages[k].sequence_number : k \in DOMAIN smessages} = TurnLines
          /\ \A j, k \in DOMAIN smessages :
                j < k => smessages[j].sequence_number < smessages[k].sequence_number

\* C15: when the call has ended, a session record was returned if and only
\* if the log holds a turn line; without one there is no record and no message
C15_RecordIffTurnLine ==
    spc \in {"returned", "raised"} =>
        /\ sresult = "session" <=> TurnLines # {}
        /\ TurnLines = {} => (sresult = "none" /\ smessages = <<>>)

\* the timestamps of the captured turn lines, by line number
CapturedStamps == {k \in TurnLines : slog[k].timestamp # NoStamp}

\* the least and the greatest of the timestamps of a set of lines
LeastStamp(K) ==
    IF K = {} THEN NoStamp
    ELSE CHOOSE t \in {slog[k].timestamp : k \in K} :
            \A k \in K : t <= slog[k].timestamp

GreatestStamp(K) ==
    IF K = {} THEN NoStamp
    ELSE CHOOSE t \in {slog[k].timestamp : k \in K} :
            \A k \in K : slog[k].timestamp <= t

\* C22: the start and the end of a returned session are the least and the
\* greatest timestamp of the captured turn lines; the duration is absent when
\* fewer than two timestamps were captured or one of them does not parse,
\* and is end minus start in seconds otherwise
C22_StartEndDuration ==
    (spc = "returned" /\ sresult = "session") =>
        /\ ssession.started_at = LeastStamp(CapturedStamps)
        /\ ssession.ended_at = GreatestStamp(CapturedStamps)
        /\ ssession.duration_seconds =
              IF \/ Cardinality(CapturedStamps) < 2
                 \/ \E k \in CapturedStamps : ~Parses(slog[k].timestamp)
              THEN NoDuration
              ELSE Instant(GreatestStamp(CapturedStamps))
                      - Instant(LeastStamp(CapturedStamps))

\* the value of a field on the first turn line of the log that carries one
FirstNonEmpty(field) ==
    LET K == {k \in DOMAIN slog : slog[k].kind \in TurnKinds /\ slog[k][field] # NoName}
    IN IF K = {} THEN NoName
       ELSE slog[CHOOSE k \in K : \A j \in K : k <= j][field]

\* C23: the model of a returned session is the model of the first turn line
\* of the log that carries a model, and its branch is the branch of the
\* first turn line that carries a branch
C23_FirstNonEmptyWins ==
    (spc = "returned" /\ sresult = "session") =>
        /\ ssession.model_primary = FirstNonEmpty("model")
        /\ ssession.git_branch = FirstNonEmpty("gitBranch")

\* C24: every message carries the 1-based number of the log line it came
\* from, counting every line read: the numbers increase strictly along the
\* messages, each message holds the fields of the line with its number, and
\* when the call returns the numbers are those of the captured turn lines
C24_SequenceIsLineNumber ==
    /\ \A k \in DOMAIN smessages :
          /\ smessages[k].sequence_number \in 1..(sline - 1)
          /\ Captured(slog[smessages[k].sequence_number])
          /\ smessages[k] = MessageOf(slog[smessages[k].sequence_number],
                                      smessages[k].sequence_number, <<>>)
    /\ \A j, k \in DOMAIN smessages :
          j < k => smessages[j].sequence_number < smessages[k].sequence_number
    /\ spc = "returned" =>
          {smessages[k].sequence_number : k \in DOMAIN smessages} = TurnLines

\* a summary line, a line that is no JSON and then a turn line: the one
\* message of the returned session has sequence number 3
C24_Witness ==
    /\ spc = "returned"
    /\ sresult = "session"
    /\ Len(slog) = 3
    /\ slog[1].kind = "summary"
    /\ slog[2].kind = "badjson"
    /\ Len(smessages) = 1
    /\ smessages[1].sequence_number = 3

\* the sum of a counter over the messages
SumOver(messages, counter) ==
    LET F[i \in 0..Len(messages)] ==
            IF i = 0 THEN 0 ELSE F[i - 1] + messages[i][counter]
    IN F[Len(messages)]

MessageStamps == {smessages[k].timestamp : k \in DOMAIN smessages} \ {NoStamp}

\* C25: the aggregates of a returned session are the aggregates of its
\* messages: the token totals are the sums over the messages, total_messages
\* is the number of messages and the sum of the user and assistant counts,
\* and start and end are timestamps of messages (absent without one)
C25_AggregatesOfMessages ==
    (spc = "returned" /\ sresult = "session") =>
        /\ ssession.total_input_tokens = SumOver(smessages, "input_tokens")
        /\ ssession.total_output_tokens = SumOver(smessages, "output_tokens")
        /\ ssession.total_messages = Len(smessages)
        /\ ssession.total_messages
              = ssession.user_messages + ssession.assistant_messages
        /\ ssession.user_messages
              = Cardinality({k \in DOMAIN smessages : smessages[k].message_type = "user"})
        /\ IF MessageStamps = {}
           THEN ssession.started_at = NoStamp /\ ssession.ended_at = NoStamp
           ELSE ssession.started_at \in MessageStamps /\ ssession.ended_at \in MessageStamps

\* C18: a unit in which a storage write failed is reported as failed, never
\* as a successful return with a record count: an archive import in which a
\* write failed does not return, and a telemetry run in which an INSERT
\* failed does not end with returned counts
C18_FailureSurfaced ==
    /\ ipc = "raised" => stats = ZeroStats
    /\ ~(tpc = "done" /\ ~tretry /\ tfailed # NoCounts)

\* the stored messages owned by session row k
OwnedMessages(k) == SelectSeq(cdb.messages, LAMBDA m : m.session_id = k)

\* C28: the aggregates of every stored session agree with the stored
\* messages it owns: total_messages is their number, the token totals are
\* their sums and ended_at is the timestamp of the last of them
C28_SessionAgreesWithMessages ==
    \A k \in DOMAIN cdb.sessions :
        /\ cdb.sessions[k].total_messages = Len(OwnedMessages(k))
        /\ cdb.sessions[k].total_input_tokens = SumOver(OwnedMessages(k), "input_tokens")
        /\ cdb.sessions[k].total_output_tokens = SumOver(OwnedMessages(k), "output_tokens")
        /\ cdb.sessions[k].ended_at = MaxStampOf([i \in DOMAIN OwnedMessages(k) |->
                                                    OwnedMessages(k)[i].timestamp])

\* C29: when a run has completed, every record of the device's logs with a
\* positive timestamp is stored exactly once: a timestamp is on as many
\* stored rows of the device as on lines of its log
C29_NothingLostOrDuplicated ==
    apc = "done" =>
        \A k \in Kinds, t \in 1..MaxTs :
            CopiesIn([source_device |-> adev, timestamp_unix |-> t], adb[k])
                = Count(alog[adev][k], t)

\* the lines of a device's log that a run starting now would store
Accepted(logs, store, device, kind) ==
    Yielded(logs[device][kind], get_last_timestamp(store[kind], device))

\* C30: the watermarks a run reads are the maxima over the stored rows of
\* its device and of each kind; ingesting for one device leaves what every
\* other device's next run accepts as it was, and ingesting one kind leaves
\* what is accepted of the other kind as it was
C30_IndependentWatermarks ==
    [][/\ apc' = "metrics" =>
            \A k \in Kinds : IsWatermark(awm'[k], adb[k], adev')
       /\ apc \in {"metrics", "events"} =>
            \A d \in Hosts, k \in Kinds :
                (d # adev \/ k # apc) =>
                    Accepted(alog', adb', d, k) = Accepted(alog, adb, d, k)]_vars

\* device 1 has a metric stored at 3; the run of device 2 has stored its
\* metric with the lower timestamp 2
C30_Witness ==
    /\ apc = "done"
    /\ adev = 2
    /\ alog[1].metrics = <<3>>
    /\ alog[2].metrics = <<2>>
    /\ BagToSet(adb.metrics) = {[source_device |-> 1, timestamp_unix |-> 3],
                                [source_device |-> 2, timestamp_unix |-> 2]}

====
